---------------------------- MODULE Spec2Model ----------------------------
(***************************************************************************)
(* mdu: multithreaded disk usage (src/main.cpp).                           *)
(*                                                                         *)
(* One dispatcher thread (main -> init_threads) and numThreads worker      *)
(* threads (thread_function) share a ThreadInfo: the pending stack, the    *)
(* byte total, the error flag, process_count, no_more_work, one mutex and  *)
(* two condition variables.  Every critical section that holds the mutex   *)
(* from lock to unlock without waiting is one atomic action; a             *)
(* condition_variable::wait splits its critical section into the part      *)
(* before the wait (which ends by releasing the mutex and blocking) and    *)
(* the part after the wake-up.  A condition variable is the set of threads *)
(* blocked on it; notify_one removes one of them (any), notify_all all of  *)
(* them, and a notification that finds no waiter is lost.  wait(lock) has  *)
(* no predicate anywhere in the source, and the C++ standard lets it       *)
(* return spuriously: SpuriousWorker and SpuriousDispatcher model that.    *)
(*                                                                         *)
(* The workers run the same function on the same argument and nothing in   *)
(* the program tells them apart, so the pool is the bag (multiset) of the  *)
(* workers' local states.                                                  *)
(***************************************************************************)
EXTENDS Integers, Sequences, FiniteSets, Bags

\* ------------------------------------------------------------------ bounds
\* Largest number of path arguments on the command line.
MaxRoots == 2
\* Largest worker count (-j).
MaxWorkers == 2
\* Largest number of spurious wake-ups in one run.
MaxSpurious == 1

\* ------------------------------------------------------- the file system
\* A static file system, the Filesystem Accessor the program consumes:
\*   R   = { a (100 bytes), B/ { b (50) }, C/ (mode 000) { c (10) } }
\*   R2  = { h (200), l -> R/a (a symbolic link to a file of 100 bytes) }
\*   F   = a plain file of 42 bytes
\*   U   = a directory the user cannot read
\*   N   = a path that does not exist
\*   S   = { v (enumerated, but gone when its size is asked for), g (7) }
\*   L   = { d -> L (a symbolic link to a directory, here a cycle) }
RootArgs == {"R", "R2", "F", "U", "N", "S", "L"}

Dirs == {"R", "R/B", "R/C", "R2", "U", "S", "L"}

RegularFiles == {"R/a", "R/B/b", "R/C/c", "R2/h", "F", "S/g"}

Symlinks == {"R2/l", "L/d"}

\* The file a path resolves to: the status queries and fs::file_size follow
\* symbolic links.
resolve(p) ==
    CASE p = "R2/l" -> "R/a"
      [] p = "L/d"  -> "L"
      [] OTHER      -> p

\* fs::is_symlink(entry)
is_symlink(p) == p \in Symlinks

\* fs::exists(p) && fs::is_directory(p), and entry.is_directory(): the status
\* of the file the path resolves to.
is_directory(p) == resolve(p) \in Dirs

\* (fs::status(p).permissions() & fs::perms::owner_read) != fs::perms::none
owner_read(p) == p \notin {"R/C", "U"}

\* Whether fs::directory_iterator(p) can open p; it throws otherwise.
can_iterate(p) == p \in Dirs /\ p \notin {"R/C", "U"}

\* The entries fs::directory_iterator(p) yields, in the order it yields them.
directory_iterator(p) ==
    CASE p = "R"    -> <<"R/a", "R/B", "R/C">>
      [] p = "R/B"  -> <<"R/B/b">>
      [] p = "R/C"  -> <<"R/C/c">>
      [] p = "R2"   -> <<"R2/l", "R2/h">>
      [] p = "S"    -> <<"S/v", "S/g">>
      [] p = "L"    -> <<"L/d">>
      [] OTHER      -> <<>>

\* Whether fs::file_size(p) returns; it throws for a missing path and for
\* what is not a regular file (a directory, also behind a link).
file_size_ok(p) == resolve(p) \in RegularFiles

\* fs::file_size(p) where it returns.
file_size(p) ==
    CASE resolve(p) = "R/a"    -> 100
      [] resolve(p) = "R/B/b"  -> 50
      [] resolve(p) = "R/C/c"  -> 10
      [] resolve(p) = "R2/h"   -> 200
      [] resolve(p) = "F"      -> 42
      [] resolve(p) = "S/g"    -> 7
      [] OTHER                 -> 0

\* ------------------------------------------------------------------ state
VARIABLES
    roots,          \* cmdArgs.first, as far as the dispatcher's for loop has come
    numThreads,     \* cmdArgs.second: the worker count
    stack,          \* threadInfo.stack.first (top = last element)
    total,          \* threadInfo.stack.second
    error,          \* threadInfo.error
    process_count,  \* threadInfo.process_count
    no_more_work,   \* threadInfo.no_more_work
    threads_complete, \* TRUE while the dispatcher is blocked in threads_complete.wait
    dpc,            \* where the dispatcher is in init_threads / main
    output,         \* the lines printed to std::cout: <<path, size>>
    workers,        \* the bag of the workers' local states (see Thread)
    aborted,        \* std::terminate was called (an exception left a thread)
    exit_value,     \* main's exit_value; -1 while main has not returned
    sig,            \* the notify call of the last step, if any
    unlocked,       \* the shared fields the last step touched without the mutex
    spurious,       \* history: the number of spurious wake-ups so far
    pops            \* history: how often each directory was popped for the current Job

vars == <<roots, numThreads, stack, total, error, process_count, no_more_work,
          threads_complete, dpc, output, workers, aborted, exit_value, sig,
          unlocked, spurious, pops>>

shared == <<stack, total, error, process_count, no_more_work>>

\* The local state of a worker thread:
\*   pc      where it is in thread_function / add_directory
\*   waiting TRUE while it is blocked in work_available.wait
\*   path    thread_function's local path = add_directory's parameter
\*   entry   add_directory: index of the next entry of the iteration
\*   size    add_directory's local size
\*   error   add_directory's local error = thread_function's local error
Thread(pc, waiting, path, entry, size, err) ==
    [pc |-> pc, waiting |-> waiting, path |-> path, entry |-> entry,
     size |-> size, error |-> err]

\* A worker that holds no locals, at pc.
Idle(pc, waiting) == Thread(pc, waiting, "", 0, 0, 0)

\* init_threads, line 131: the path the for loop is at.
dir == roots[Len(roots)]

\* The bag B with one copy of r replaced by r2.
Replace(B, r, r2) == (B (-) SetToBag({r})) (+) SetToBag({r2})

\* The workers at pc, and their number.
At(pc) == {r \in BagToSet(workers) : r.pc = pc}

Init ==
    /\ roots = <<>>
    /\ numThreads \in 1..MaxWorkers
    /\ stack = <<>>
    /\ total = 0
    /\ error = 0
    /\ process_count = 0
    /\ no_more_work = FALSE
    /\ threads_complete = FALSE
    /\ dpc = "next"
    /\ output = <<>>
    /\ workers = [r \in {Idle("start", FALSE)} |-> numThreads]
    /\ aborted = FALSE
    /\ exit_value = -1
    /\ sig = "none"
    /\ unlocked = {}
    /\ spurious = 0
    /\ pops = [d \in Dirs |-> 0]

\* ----------------------------------------------------- condition variables
\* A thread after its wait was ended.
woken(r) == [r EXCEPT !.waiting = FALSE]

\* work_available.notify_one() on the pool B: the pools it can leave.  One
\* of the blocked workers is woken; with none blocked nothing happens.
notify_one(B) ==
    IF \A r \in BagToSet(B) : ~r.waiting
    THEN {B}
    ELSE {Replace(B, r, woken(r)) : r \in {x \in BagToSet(B) : x.waiting}}

\* work_available.notify_all() on the pool B: every blocked worker is woken.
notify_all(B) == BagOfAll(woken, B)

\* ------------------------------------------------------------- dispatcher
\* init_threads, lines 136-137: a stack that holds the path.
newStack(p) == <<p>>

\* init_threads, lines 131-144: the next path of cmdArgs.first is a
\* directory; install the new stack and notify one worker, in one critical
\* section.
DispatcherInstall ==
    /\ ~aborted
    /\ dpc = "next"
    /\ Len(roots) < MaxRoots
    /\ \E p \in RootArgs :
          /\ is_directory(p)
          /\ roots' = Append(roots, p)
          /\ stack' = newStack(p)
    /\ workers' \in notify_one(workers)
    /\ sig' = "work_one"
    /\ unlocked' = {}
    /\ dpc' = "lock"
    /\ pops' = [d \in Dirs |-> 0]
    /\ UNCHANGED <<numThreads, total, error, process_count, no_more_work,
                   threads_complete, output, aborted, exit_value, spurious>>

\* init_threads, lines 147-149: take the mutex again and block on
\* threads_complete (the wait releases the mutex).
DispatcherWait ==
    /\ ~aborted
    /\ dpc = "lock"
    /\ threads_complete' = TRUE
    /\ dpc' = "wait"
    /\ sig' = "none"
    /\ unlocked' = {}
    /\ UNCHANGED <<roots, numThreads, shared, output, workers, aborted,
                   exit_value, spurious, pops>>

\* init_threads, lines 149-153: the wait returns and the mutex is released
\* at the end of the block (line 150); then, holding no mutex, read
\* stack.second and print it.
DispatcherPrint ==
    /\ ~aborted
    /\ dpc = "wait"
    /\ ~threads_complete
    /\ output' = Append(output, <<dir, total>>)
    /\ dpc' = "next"
    /\ sig' = "none"
    /\ unlocked' = {"total"}
    /\ UNCHANGED <<roots, numThreads, shared, threads_complete, workers, aborted,
                   exit_value, spurious, pops>>

\* DispatcherFile as it would be with the notification of line 143 made for
\* every path instead of inside the if: the file is printed and a worker is
\* notified.
DispatcherFileNotifies ==
    /\ ~aborted
    /\ dpc = "next"
    /\ Len(roots) < MaxRoots
    /\ \E p \in RootArgs :
          /\ ~is_directory(p)
          /\ file_size_ok(p)
          /\ roots' = Append(roots, p)
          /\ output' = Append(output, <<p, file_size(p)>>)
    /\ workers' \in notify_one(workers)
    /\ sig' = "work_one"
    /\ unlocked' = {}
    /\ UNCHANGED <<numThreads, shared, threads_complete, dpc, aborted,
                   exit_value, spurious, pops>>

\* init_threads, lines 155-158: the next path is not a directory and
\* fs::file_size returns.
DispatcherFile ==
    /\ ~aborted
    /\ dpc = "next"
    /\ Len(roots) < MaxRoots
    /\ \E p \in RootArgs :
          /\ ~is_directory(p)
          /\ file_size_ok(p)
          /\ roots' = Append(roots, p)
          /\ output' = Append(output, <<p, file_size(p)>>)
    /\ sig' = "none"
    /\ unlocked' = {}
    /\ UNCHANGED <<numThreads, shared, threads_complete, dpc, workers, aborted,
                   exit_value, spurious, pops>>

\* init_threads, line 157: fs::file_size throws (the path does not exist);
\* nothing catches the exception and std::terminate ends the process.
DispatcherFileThrows ==
    /\ ~aborted
    /\ dpc = "next"
    /\ Len(roots) < MaxRoots
    /\ \E p \in RootArgs :
          /\ ~is_directory(p)
          /\ ~file_size_ok(p)
          /\ roots' = Append(roots, p)
    /\ aborted' = TRUE
    /\ sig' = "none"
    /\ unlocked' = {}
    /\ UNCHANGED <<numThreads, shared, threads_complete, dpc, output, workers,
                   exit_value, spurious, pops>>

\* init_threads, lines 161-166: the for loop is at the end of cmdArgs.first:
\* set no_more_work and notify every worker.
DispatcherShutdown ==
    /\ ~aborted
    /\ dpc = "next"
    /\ no_more_work' = TRUE
    /\ workers' = notify_all(workers)
    /\ sig' = "work_all"
    /\ unlocked' = {}
    /\ dpc' = "join"
    /\ UNCHANGED <<roots, numThreads, stack, total, error, process_count,
                   threads_complete, output, aborted, exit_value, spurious, pops>>

\* init_threads, lines 168-172, and main, lines 110-114: every join
\* returns once every worker has returned; main reads threadInfo.error,
\* holding no mutex, and returns it.
DispatcherJoin ==
    /\ ~aborted
    /\ dpc = "join"
    /\ \A r \in BagToSet(workers) : r.pc = "done"
    /\ dpc' = "exited"
    /\ exit_value' = error
    /\ sig' = "none"
    /\ unlocked' = {"error"}
    /\ UNCHANGED <<roots, numThreads, shared, threads_complete, output, workers,
                   aborted, spurious, pops>>

\* ----------------------------------------------------------------- workers
\* thread_function, lines 178-180: the first, unconditional wait for work.
WorkerStart(r) ==
    /\ ~aborted
    /\ r.pc = "start"
    /\ workers' = Replace(workers, r, Idle("first_wait", TRUE))
    /\ sig' = "none"
    /\ unlocked' = {}
    /\ UNCHANGED <<roots, numThreads, shared, threads_complete, dpc, output,
                   aborted, exit_value, spurious, pops>>

\* thread_function, lines 188-193: stack empty and a worker still
\* processing: wait for work_available and check again after the wake-up.
EvaluateBusy(r) ==
    /\ stack = <<>> /\ process_count > 0
    /\ workers' = Replace(workers, r, Idle("busy_wait", TRUE))
    /\ sig' = "none"
    /\ unlocked' = {}
    /\ UNCHANGED <<shared, threads_complete, pops>>

\* thread_function, lines 195-200: no_more_work is set: return.
EvaluateShutdown(r) ==
    /\ ~(stack = <<>> /\ process_count > 0)
    /\ no_more_work
    /\ workers' = Replace(workers, r, Idle("done", FALSE))
    /\ sig' = "none"
    /\ unlocked' = {}
    /\ UNCHANGED <<shared, threads_complete, pops>>

\* EvaluateComplete as it would be without the while loop of lines 188-193:
\* a worker that finds the stack empty notifies threads_complete whatever
\* process_count is.
EvaluateCompleteUnguarded(r) ==
    /\ ~no_more_work
    /\ stack = <<>>
    /\ threads_complete' = FALSE
    /\ workers' = Replace(workers, r, Idle("idle_wait", TRUE))
    /\ sig' = "complete_one"
    /\ unlocked' = {}
    /\ UNCHANGED <<shared, pops>>

\* thread_function, lines 202-207: the stack is empty (and process_count is
\* 0): notify threads_complete, then wait for work_available.
EvaluateComplete(r) ==
    /\ ~(stack = <<>> /\ process_count > 0)
    /\ ~no_more_work
    /\ stack = <<>>
    /\ threads_complete' = FALSE
    /\ workers' = Replace(workers, r, Idle("idle_wait", TRUE))
    /\ sig' = "complete_one"
    /\ unlocked' = {}
    /\ UNCHANGED <<shared, pops>>

\* EvaluatePop as it would be without the increment of line 215: the worker
\* pops and processes without being counted.
EvaluatePopUncounted(r) ==
    /\ ~(stack = <<>> /\ process_count > 0)
    /\ ~no_more_work
    /\ stack # <<>>
    /\ workers' = Replace(workers, r, Thread("scan", FALSE, stack[Len(stack)], 1, 0, 0))
    /\ stack' = SubSeq(stack, 1, Len(stack) - 1)
    /\ pops' = [pops EXCEPT ![stack[Len(stack)]] = @ + 1]
    /\ sig' = "none"
    /\ unlocked' = {}
    /\ UNCHANGED <<total, error, process_count, no_more_work, threads_complete>>

\* thread_function, lines 210-217, and add_directory, lines 238-239: pop the
\* top path, count this worker as processing, release the mutex.
EvaluatePop(r) ==
    /\ ~(stack = <<>> /\ process_count > 0)
    /\ ~no_more_work
    /\ stack # <<>>
    /\ workers' = Replace(workers, r, Thread("scan", FALSE, stack[Len(stack)], 1, 0, 0))
    /\ stack' = SubSeq(stack, 1, Len(stack) - 1)
    /\ process_count' = process_count + 1
    /\ pops' = [pops EXCEPT ![stack[Len(stack)]] = @ + 1]
    /\ sig' = "none"
    /\ unlocked' = {}
    /\ UNCHANGED <<total, error, no_more_work, threads_complete>>

\* thread_function, lines 180-217: one pass of while (true) under the mutex.
\* The worker enters it from the end of the previous pass, or when its wait
\* returns: the wait of line 191 inside the while loop, or the waits of
\* lines 180 and 207, after which it releases the mutex and takes it again
\* at line 185 without touching anything in between.
WorkerEvaluate(r) ==
    /\ ~aborted
    /\ \/ r.pc = "loop"
       \/ r.pc \in {"first_wait", "busy_wait", "idle_wait"} /\ ~r.waiting
    /\ \/ EvaluateBusy(r)
       \/ EvaluateShutdown(r)
       \/ EvaluateComplete(r)
       \/ EvaluatePop(r)
    /\ UNCHANGED <<roots, numThreads, dpc, output, aborted, exit_value, spurious>>

\* add_directory, line 241: fs::directory_iterator throws for a directory
\* that cannot be opened; nothing catches it and std::terminate ends the
\* process.
ScanThrows(r) ==
    /\ ~aborted
    /\ r.pc = "scan"
    /\ ~can_iterate(r.path)
    /\ aborted' = TRUE
    /\ sig' = "none"
    /\ unlocked' = {}
    /\ UNCHANGED <<roots, numThreads, shared, threads_complete, dpc, output,
                   workers, exit_value, spurious, pops>>

\* add_directory, lines 241-273: the part of the loop over the entries that
\* touches nothing shared, from entry i on: a symbolic link or another
\* non-directory adds its fs::file_size to the local size, a directory whose
\* owner_read bit is clear sets the local error.  It stops in front of a
\* directory to push, in front of an entry whose fs::file_size throws, or
\* behind the last entry.
RECURSIVE scan_entries(_, _, _, _)
scan_entries(p, i, sz, err) ==
    LET entries == directory_iterator(p)
    IN  IF i > Len(entries)
        THEN [entry |-> i, size |-> sz, error |-> err]
        ELSE IF is_symlink(entries[i]) \/ ~is_directory(entries[i])
             THEN IF file_size_ok(entries[i])
                  THEN scan_entries(p, i + 1, sz + file_size(entries[i]), err)
                  ELSE [entry |-> i, size |-> sz, error |-> err]
             ELSE IF owner_read(entries[i])
                  THEN [entry |-> i, size |-> sz, error |-> err]
                  ELSE scan_entries(p, i + 1, sz, 1)

\* Where the loop over the entries of worker r stops next.
scanned(r) == scan_entries(r.path, r.entry, r.size, r.error)

\* The entry the loop over the entries of worker r stops in front of.
stopped(r) == directory_iterator(r.path)[scanned(r).entry]

\* add_directory, lines 246 and 270: fs::file_size throws for the entry (it
\* is gone, or it is a link to no file or to a directory); nothing catches
\* the exception and std::terminate ends the process.
ScanFileSizeThrows(r) ==
    /\ ~aborted
    /\ r.pc = "scan"
    /\ can_iterate(r.path)
    /\ scanned(r).entry <= Len(directory_iterator(r.path))
    /\ is_symlink(stopped(r)) \/ ~is_directory(stopped(r))
    /\ aborted' = TRUE
    /\ workers' = Replace(workers, r,
                          Thread("scan", FALSE, r.path, scanned(r).entry,
                                 scanned(r).size, scanned(r).error))
    /\ sig' = "none"
    /\ unlocked' = {}
    /\ UNCHANGED <<roots, numThreads, shared, threads_complete, dpc, output,
                   exit_value, spurious, pops>>

\* ScanPush as it would be if the critical section of the push also added
\* the local size gathered so far to stack.second, which line 277 adds again
\* at the end.
ScanPushAddsSize(r) ==
    /\ ~aborted
    /\ r.pc = "scan"
    /\ can_iterate(r.path)
    /\ scanned(r).entry <= Len(directory_iterator(r.path))
    /\ ~is_symlink(stopped(r)) /\ is_directory(stopped(r))
    /\ stack' = Append(stack, stopped(r))
    /\ total' = total + scanned(r).size
    /\ workers' \in notify_one(Replace(workers, r,
                       Thread("scan", FALSE, r.path, scanned(r).entry + 1,
                              scanned(r).size, scanned(r).error)))
    /\ sig' = "work_one"
    /\ unlocked' = {}
    /\ UNCHANGED <<roots, numThreads, error, process_count, no_more_work,
                   threads_complete, dpc, output, aborted, exit_value, spurious,
                   pops>>

\* add_directory, lines 250-260: a directory whose owner_read bit is set:
\* push it and notify one worker, in a critical section of its own.
ScanPush(r) ==
    /\ ~aborted
    /\ r.pc = "scan"
    /\ can_iterate(r.path)
    /\ scanned(r).entry <= Len(directory_iterator(r.path))
    /\ ~is_symlink(stopped(r)) /\ is_directory(stopped(r))
    /\ stack' = Append(stack, stopped(r))
    /\ workers' \in notify_one(Replace(workers, r,
                       Thread("scan", FALSE, r.path, scanned(r).entry + 1,
                              scanned(r).size, scanned(r).error)))
    /\ sig' = "work_one"
    /\ unlocked' = {}
    /\ UNCHANGED <<roots, numThreads, total, error, process_count, no_more_work,
                   threads_complete, dpc, output, aborted, exit_value, spurious,
                   pops>>

\* add_directory, lines 275-280: after the last entry, add the local size to
\* stack.second under the mutex and return the local error; the locals of
\* add_directory end here.
ScanMerge(r) ==
    /\ ~aborted
    /\ r.pc = "scan"
    /\ can_iterate(r.path)
    /\ scanned(r).entry > Len(directory_iterator(r.path))
    /\ total' = total + scanned(r).size
    /\ workers' = Replace(workers, r,
                          Thread("post", FALSE, r.path, 0, 0, scanned(r).error))
    /\ sig' = "none"
    /\ unlocked' = {}
    /\ UNCHANGED <<roots, numThreads, stack, error, process_count, no_more_work,
                   threads_complete, dpc, output, aborted, exit_value, spurious,
                   pops>>

\* thread_function, lines 221-231: under the mutex again, record the error,
\* decrement process_count and notify every worker; the lock is released at
\* the end of the loop body, where the locals path and error end.
WorkerPost(r) ==
    /\ ~aborted
    /\ r.pc = "post"
    /\ error' = IF r.error = 1 THEN r.error ELSE error
    /\ process_count' = process_count - 1
    /\ workers' = notify_all(Replace(workers, r, Idle("loop", FALSE)))
    /\ sig' = "work_all"
    /\ unlocked' = {}
    /\ UNCHANGED <<roots, numThreads, stack, total, no_more_work,
                   threads_complete, dpc, output, aborted, exit_value, spurious,
                   pops>>

\* ------------------------------------------------------ spurious wake-ups
\* work_available.wait(lock), lines 180, 191, 207: the wait may return
\* without a notification.
SpuriousWorker(r) ==
    /\ ~aborted
    /\ r.waiting
    /\ spurious < MaxSpurious
    /\ spurious' = spurious + 1
    /\ workers' = Replace(workers, r, woken(r))
    /\ sig' = "none"
    /\ unlocked' = {}
    /\ UNCHANGED <<roots, numThreads, shared, threads_complete, dpc, output,
                   aborted, exit_value, pops>>

\* threads_complete.wait(lock), line 149: the wait may return without a
\* notification.
SpuriousDispatcher ==
    /\ ~aborted
    /\ threads_complete
    /\ spurious < MaxSpurious
    /\ spurious' = spurious + 1
    /\ threads_complete' = FALSE
    /\ sig' = "none"
    /\ unlocked' = {}
    /\ UNCHANGED <<roots, numThreads, shared, dpc, output, workers, aborted,
                   exit_value, pops>>

\* ---------------------------------------------------------- specification
Dispatcher ==
    \/ DispatcherInstall
    \/ DispatcherWait
    \/ DispatcherPrint
    \/ DispatcherFile
    \/ DispatcherFileThrows
    \/ DispatcherShutdown
    \/ DispatcherJoin

Worker ==
    \/ \E r \in BagToSet(workers) : WorkerStart(r)
    \/ \E r \in BagToSet(workers) : WorkerEvaluate(r)
    \/ \E r \in BagToSet(workers) : ScanThrows(r)
    \/ \E r \in BagToSet(workers) : ScanFileSizeThrows(r)
    \/ \E r \in BagToSet(workers) : ScanPush(r)
    \/ \E r \in BagToSet(workers) : ScanMerge(r)
    \/ \E r \in BagToSet(workers) : WorkerPost(r)

Spurious ==
    \/ SpuriousDispatcher
    \/ \E r \in BagToSet(workers) : SpuriousWorker(r)

Next ==
    \/ Dispatcher
    \/ Worker
    \/ Spurious

Spec == Init /\ [][Next]_vars

\* The steps the program takes when every wait returns because of a
\* notification only.
NextNotified ==
    \/ Dispatcher
    \/ Worker

\* Runs without spurious wake-ups in which the operating system keeps
\* scheduling every thread that can run: the dispatcher takes a step when it
\* can, and so does the pool.
FairSpec ==
    /\ Init
    /\ [][NextNotified]_vars
    /\ WF_vars(Dispatcher)
    /\ WF_vars(Worker)

\* ------------------------------------------------- what the claims speak of
\* Quiescence: nothing pending and no worker processing.
Quiescent == stack = <<>> /\ process_count = 0

\* A Job is installed for the directory the dispatcher is at, and the
\* dispatcher has not reported it yet.
JobInstalled == dpc \in {"lock", "wait"}

\* The sum of the sizes of the regular files and symbolic links below
\* directory p, from entry i on, without following links and without
\* entering directories that are not owner-readable.
RECURSIVE du_from(_, _)
du_from(p, i) ==
    LET entries == directory_iterator(p)
    IN  IF i > Len(entries) THEN 0
        ELSE (IF is_symlink(entries[i]) \/ ~is_directory(entries[i])
                THEN file_size(entries[i])
                ELSE IF owner_read(entries[i]) THEN du_from(entries[i], 1) ELSE 0)
             + du_from(p, i + 1)

du(p) == du_from(p, 1)

\* The directories of the tree below p that are pushed: p itself and, entry
\* by entry, every owner-readable directory that is not a symbolic link.
RECURSIVE tree_from(_, _)
tree_from(p, i) ==
    LET entries == directory_iterator(p)
    IN  IF i > Len(entries) THEN {p}
        ELSE (IF ~is_symlink(entries[i]) /\ is_directory(entries[i])
                   /\ owner_read(entries[i])
                THEN tree_from(entries[i], 1) ELSE {})
             \cup tree_from(p, i + 1)

tree(p) == tree_from(p, 1)

\* Whether a directory of the tree below p cannot be read: p itself, or a
\* directory entry whose owner_read bit is clear.
denied(p) ==
    \/ ~can_iterate(p)
    \/ \E d \in tree(p) : \E i \in 1..Len(directory_iterator(d)) :
          LET e == directory_iterator(d)[i]
          IN  ~is_symlink(e) /\ is_directory(e) /\ ~owner_read(e)

\* The root of the installed Job was popped.
RootPopped == roots # <<>> /\ is_directory(dir) /\ pops[dir] = 1

\* The paths on the pending stack.
pending == {stack[i] : i \in 1..Len(stack)}

\* ------------------------------------------------------------------ claims

\* C1: once the dispatcher has installed a Job for a directory it can read
\* and has notified work_available, the pool eventually reaches quiescence
\* for that Job: the root was popped, the stack is empty and process_count
\* is 0.
C1_Original ==
    (dpc = "lock" /\ can_iterate(dir))
        ~> (Quiescent /\ RootPopped)

\* C2: whenever the pool is quiescent for the installed Job (its root was
\* popped, the stack is empty, process_count is 0) while the dispatcher is
\* about to wait or waits on threads_complete, the dispatcher eventually
\* reports that root.
C2_Original ==
    (JobInstalled /\ Quiescent /\ RootPopped) ~> (Len(output) = Len(roots))

\* C3: every total the dispatcher reports for a directory is the sum of the
\* sizes of the regular files and symbolic links below it, whatever the
\* worker count and the interleaving.
C3_Original ==
    \A i \in 1..Len(output) :
        is_directory(output[i][1]) => output[i][2] = du(output[i][1])

\* C4: each directory root gets a fresh Job: when the dispatcher installs
\* the stack for a root, the Job's total starts at 0.
C4_Original ==
    [][(dpc = "next" /\ dpc' = "lock") => total' = 0]_vars

\* C5: no directory is popped twice for a Job, and once the dispatcher has
\* gone past a root it could read, no pushed path is left on the stack and
\* every directory of the root's tree was popped exactly once.
C5_Original ==
    /\ \A d \in Dirs : pops[d] <= 1
    /\ (dpc \in {"next", "join", "exited"} /\ roots # <<>> /\ ~aborted)
         => (can_iterate(dir)
               => (stack = <<>> /\ \A d \in tree(dir) : pops[d] = 1))

\* C6: whenever the dispatcher returns from its wait and reads the total,
\* the stack is empty, process_count is 0 and no worker is between its pop
\* and the end of its merge.
C6_Original ==
    [][(dpc = "wait" /\ dpc' = "next")
          => (Quiescent /\ At("scan") = {} /\ At("post") = {})]_vars

\* C7: for the tree R = {a (100), B/b (50), unreadable C/c (10)}: the total
\* reported for R (as the first root) is 150, C is never pushed nor popped,
\* the process is not terminated while R is the root, and the exit status
\* is non-zero.
C7_Original ==
    /\ (output # <<>> /\ output[1][1] = "R") => output[1][2] = 150
    /\ "R/C" \notin pending /\ pops["R/C"] = 0
    /\ (aborted => dir # "R")
    /\ (dpc = "exited" /\ roots # <<>> /\ roots[1] = "R") => exit_value # 0

\* C8: the exit status is non-zero exactly if some directory of some root
\* could not be read, and a directory that cannot be read never ends the
\* process: only a later path is handled next.
C8_Original ==
    /\ dpc = "exited"
         => (exit_value # 0 <=> \E i \in 1..Len(roots) :
                                   is_directory(roots[i]) /\ denied(roots[i]))
    /\ aborted => \A r \in BagToSet(workers) :
                     ~(r.pc = "scan" /\ ~can_iterate(r.path))

\* C9: once the dispatcher, after the last root, has set no_more_work and
\* notified every worker,
\* every worker eventually returns and the joins complete.
C9_Original ==
    (dpc = "join" /\ roots # <<>>)
        ~> (dpc = "exited" /\ \A r \in BagToSet(workers) : r.pc = "done")

\* C10: handling a path that is not a directory changes neither the stack,
\* the total, process_count, the error flag nor no_more_work, wakes and
\* engages no worker, makes no notify call and does not wait for
\* threads_complete; where fs::file_size returns, its value is printed.
C10_FileRootFrame ==
    [][(Len(roots') = Len(roots) + 1 /\ ~is_directory(roots'[Len(roots')]))
          => /\ UNCHANGED <<shared, workers, threads_complete>>
             /\ sig' = "none"
             /\ unlocked' = {}
             /\ dpc' = "next"
             /\ file_size_ok(roots'[Len(roots')])
                  => output' = Append(output, <<roots'[Len(roots')],
                                                file_size(roots'[Len(roots')])>>)
       ]_vars

\* C10 happens: the plain file F was reported as 42 after a directory had
\* been measured, with the shared state as the directory's Job left it.
C10_Witness ==
    /\ Len(output) = 2
    /\ output[2] = <<"F", 42>>
    /\ total > 0
    /\ dpc = "next"

\* A worker is in add_directory in front of an entry that is no symbolic
\* link and no directory and whose size query fails: a stale entry.
AtStaleEntry(r) ==
    /\ r.pc = "scan"
    /\ can_iterate(r.path)
    /\ scanned(r).entry <= Len(directory_iterator(r.path))
    /\ ~is_symlink(stopped(r))
    /\ ~is_directory(stopped(r))
    /\ ~file_size_ok(stopped(r))

\* C11: an entry whose size query fails during a scan is skipped: the
\* process is not terminated in front of it, the directory S = {v (gone),
\* g (7)} is reported with the 7 bytes of the rest of the directory, and
\* the error flag stays clear.
C11_Original ==
    /\ aborted => \A r \in BagToSet(workers) : ~AtStaleEntry(r)
    /\ (output # <<>> /\ output[1][1] = "S") => output[1][2] = 7
    /\ (dpc = "exited" /\ roots = <<"S">>) => exit_value = 0

\* C12: a worker notifies threads_complete only in a critical section in
\* which the stack is empty and process_count is 0, with no worker between
\* its pop and its decrement, and that section changes nothing shared; a
\* step taken while the stack is empty and process_count > 0 never makes
\* the notification and never releases the dispatcher unless its wait
\* returns spuriously.
C12_QuiescenceSignal ==
    [][/\ sig' = "complete_one"
            => /\ Quiescent
               /\ UNCHANGED shared
               /\ At("scan") = {} /\ At("post") = {}
       /\ (stack = <<>> /\ process_count > 0)
            => /\ sig' # "complete_one"
               /\ threads_complete' = threads_complete
                    \/ spurious' # spurious
                    \/ dpc' # dpc
      ]_vars

\* C12 happens: a worker has just notified threads_complete for a Job whose
\* root was popped, while another worker, which had found the stack empty
\* with process_count > 0, is still at the inner wait of the while loop.
C12_Witness ==
    /\ sig = "complete_one"
    /\ RootPopped
    /\ At("busy_wait") # {}

\* The number of workers that have popped a path and have not yet made the
\* decrement of line 227.
InFlight ==
    BagCardinality([r \in At("scan") \cup At("post") |-> CopiesIn(r, workers)])

\* C13: whenever the mutex is free, process_count is the number of workers
\* between their pop and their decrement; so it is at least 0 and at most
\* the worker count.
C13_ProcessCount ==
    /\ process_count = InFlight
    /\ 0 <= process_count
    /\ process_count <= numThreads

\* C13 happens: two workers are counted at once, one of them already past
\* its merge and about to decrement.
C13_Witness ==
    /\ process_count = 2
    /\ At("post") # {}

\* C14: no thread ever reads or writes the stack, the total, process_count,
\* the error flag or no_more_work without holding the mutex; in particular
\* the dispatcher holds it when it reads the total it reports.
C14_Original ==
    unlocked = {}

\* A step of a worker that neither pops nor decrements, nor is a step of
\* the dispatcher: process_count, the dispatcher's position and the roots
\* handled stay as they are.
BetweenPopAndDecrement ==
    /\ process_count' = process_count
    /\ dpc' = dpc
    /\ roots' = roots

\* C15: add_directory touches nothing shared: a worker changes the stack
\* and the total only in the critical section in which it decrements
\* process_count, never between its pop and that section.
C15_Original ==
    [][BetweenPopAndDecrement => (stack' = stack /\ total' = total)]_vars

\* The bytes of the entries of directory p itself, from entry i on: the
\* sizes of its symbolic links and of its entries that are no directories.
RECURSIVE local_bytes(_, _)
local_bytes(p, i) ==
    LET entries == directory_iterator(p)
    IN  IF i > Len(entries) THEN 0
        ELSE (IF is_symlink(entries[i]) \/ ~is_directory(entries[i])
                THEN file_size(entries[i]) ELSE 0)
             + local_bytes(p, i + 1)

\* The directories add_directory pushes for p: the entries that are
\* owner-readable directories and no symbolic links.
pushable(p) ==
    {directory_iterator(p)[i] : i \in
        {j \in 1..Len(directory_iterator(p)) :
            LET e == directory_iterator(p)[j]
            IN  ~is_symlink(e) /\ is_directory(e) /\ owner_read(e)}}

\* C15 as amended: add_directory takes the mutex itself.  Between its pop
\* and its decrement a worker changes the stack only by pushing a directory
\* it discovered, in a critical section of its own that notifies one worker
\* and leaves the total alone; it changes the total only by adding the bytes
\* of its directory's own entries, in a critical section that leaves the
\* stack alone; it never changes the error flag or no_more_work there.  The
\* critical section of the decrement changes neither stack nor total and
\* notifies every worker.
C15_Amended ==
    [][/\ BetweenPopAndDecrement
            => /\ UNCHANGED <<error, no_more_work>>
               /\ stack' # stack
                    => /\ \E r \in At("scan") : \E d \in pushable(r.path) :
                             stack' = Append(stack, d)
                       /\ total' = total
                       /\ sig' = "work_one"
               /\ total' # total
                    => /\ \E r \in At("scan") :
                             total' = total + local_bytes(r.path, 1)
                       /\ stack' = stack
                       /\ sig' = "none"
       /\ process_count' = process_count - 1
            => /\ stack' = stack /\ total' = total
               /\ sig' = "work_all"
      ]_vars

\* C15 happens: a worker that scanned R, pushed R/B from inside
\* add_directory and added the 100 bytes of R/a is about to decrement.
C15_Witness ==
    /\ \E r \in At("post") : r.path = "R"
    /\ pops["R/B"] = 1
    /\ total >= 100

\* The number of workers that have returned from thread_function.
Terminated == CopiesIn(Idle("done", FALSE), workers)

\* C16: a worker returns only in a step in which it finds no_more_work set,
\* with the dispatcher past its last root, and not while a path of a Job is
\* still pending or a worker is still processing one; the dispatcher sets
\* no_more_work only when every root it handled has been reported, no
\* worker having returned before; the flag is never cleared, and a worker
\* that has returned stays returned (workers return one at a time and
\* their number never decreases).
C16_Original ==
    [][/\ Terminated' # Terminated
            => /\ Terminated' = Terminated + 1
               /\ no_more_work
               /\ dpc = "join"
               /\ Len(output) = Len(roots)
               /\ Quiescent
       /\ (no_more_work' /\ ~no_more_work)
            => /\ dpc = "next"
               /\ Len(output) = Len(roots)
               /\ Terminated = 0
       /\ no_more_work => no_more_work'
      ]_vars

\* A worker is in add_directory in front of a symbolic link whose size
\* query fails.
AtSymlink(r) ==
    /\ r.pc = "scan"
    /\ can_iterate(r.path)
    /\ scanned(r).entry <= Len(directory_iterator(r.path))
    /\ is_symlink(stopped(r))

\* C17: a symbolic link, to a file or to a directory, is never on the
\* stack and never the path a worker scans; the scan goes past it with its
\* size added to the local byte count, so the process is not terminated in
\* front of it, and R2 = {l -> R/a (100), h (200)}, measured first, is
\* reported as 300.
C17_Original ==
    /\ \A i \in 1..Len(stack) : ~is_symlink(stack[i])
    /\ \A r \in BagToSet(workers) : ~is_symlink(r.path)
    /\ aborted => \A r \in BagToSet(workers) : ~AtSymlink(r)
    /\ (output # <<>> /\ output[1][1] = "R2") => output[1][2] = 300

\* C18: whenever the dispatcher installs a new Job by overwriting the
\* stack, the stack it overwrites is empty, process_count is 0 and no
\* worker is between its pop and its decrement: no pending directory is
\* discarded and no worker of an earlier root pushes into the new Job.
C18_Original ==
    [][(dpc = "next" /\ dpc' = "lock")
          => /\ stack = <<>>
             /\ process_count = 0
             /\ At("scan") = {} /\ At("post") = {}
      ]_vars

=============================================================================
